---- MODULE Spec2Model ----
(***************************************************************************)
(* Model of git-cactus (src/index.js): the two release workflows           *)
(* cutReleaseBranch ("cut") and tagVersion ("tag"), run through wrap.      *)
(* One run of one command is modelled; every await of the async functions  *)
(* is a step, and every external collaborator (git, the credential helper, *)
(* npm version, the prompt, the remote) answers nondeterministically.      *)
(***************************************************************************)
EXTENDS Integers, Sequences, FiniteSets, TLC

(***************************************************************************)
(* Bounds of the model.                                                    *)
(***************************************************************************)
\* commits of the shared history are numbered 1..MaxCommits
MaxCommits == 3

(***************************************************************************)
(* Semantic versions.  A version is a record; a prerelease identifier is   *)
(* either numeric or alphanumeric, as semver parses it.                    *)
(***************************************************************************)
Num(n) == [isNum |-> TRUE, n |-> n, s |-> ""]

Id(s) == [isNum |-> FALSE, n |-> 0, s |-> s]

Ver(ma, mi, pa, pre) == [valid |-> TRUE, major |-> ma, minor |-> mi, patch |-> pa, pre |-> pre]

\* what semver makes of a string that is not a semantic version: null
NullVersion == [valid |-> FALSE, major |-> 0, minor |-> 0, patch |-> 0, pre |-> <<>>]

IdStr(i) == IF i.isNum THEN ToString(i.n) ELSE i.s

RECURSIVE JoinIds(_)
JoinIds(pre) ==
  IF Len(pre) = 0 THEN ""
  ELSE IF Len(pre) = 1 THEN IdStr(pre[1])
  ELSE IdStr(pre[1]) \o "." \o JoinIds(Tail(pre))

\* SemVer.format(): major.minor.patch[-prerelease]
Format(v) ==
  ToString(v.major) \o "." \o ToString(v.minor) \o "." \o ToString(v.patch)
    \o (IF Len(v.pre) = 0 THEN "" ELSE "-" \o JoinIds(v.pre))

\* the index of the last numeric identifier of a prerelease, 0 if none
LastNumeric(pre) ==
  IF \E i \in 1..Len(pre) : pre[i].isNum
  THEN CHOOSE i \in 1..Len(pre) :
         pre[i].isNum /\ \A j \in (i+1)..Len(pre) : ~pre[j].isNum
  ELSE 0

\* SemVer.inc('pre', identifier); identifier "" stands for undefined
IncPre(pre, identifier) ==
  LET bumped ==
        IF Len(pre) = 0 THEN <<Num(0)>>
        ELSE IF LastNumeric(pre) # 0
             THEN [pre EXCEPT ![LastNumeric(pre)] = Num(@.n + 1)]
             ELSE Append(pre, Num(0))
  IN IF identifier = "" THEN bumped
     ELSE IF bumped[1] = Id(identifier)
          THEN IF Len(bumped) < 2 \/ ~bumped[2].isNum
               THEN <<Id(identifier), Num(0)>>
               ELSE bumped
          ELSE <<Id(identifier), Num(0)>>

\* the release types SemVer.prototype.inc has a case for
ReleaseTypes == {"major", "minor", "patch", "premajor", "preminor", "prepatch",
                 "prerelease", "pre"}

\* semver.inc(version, release, identifier): null for an invalid version
\* or an unknown release type
SemverInc(v, release, identifier) ==
  IF ~v.valid \/ release \notin ReleaseTypes THEN NullVersion
  ELSE CASE release = "premajor" ->
              Ver(v.major + 1, 0, 0, IncPre(<<>>, identifier))
         [] release = "preminor" ->
              Ver(v.major, v.minor + 1, 0, IncPre(<<>>, identifier))
         [] release = "prepatch" ->
              Ver(v.major, v.minor, v.patch + 1, IncPre(<<>>, identifier))
         [] release = "prerelease" ->
              IF Len(v.pre) = 0
              THEN Ver(v.major, v.minor, v.patch + 1, IncPre(<<>>, identifier))
              ELSE Ver(v.major, v.minor, v.patch, IncPre(v.pre, identifier))
         [] release = "major" ->
              IF v.minor # 0 \/ v.patch # 0 \/ Len(v.pre) = 0
              THEN Ver(v.major + 1, 0, 0, <<>>)
              ELSE Ver(v.major, 0, 0, <<>>)
         [] release = "minor" ->
              IF v.patch # 0 \/ Len(v.pre) = 0
              THEN Ver(v.major, v.minor + 1, 0, <<>>)
              ELSE Ver(v.major, v.minor, 0, <<>>)
         [] release = "patch" ->
              IF Len(v.pre) = 0
              THEN Ver(v.major, v.minor, v.patch + 1, <<>>)
              ELSE Ver(v.major, v.minor, v.patch, <<>>)
         [] release = "pre" ->
              Ver(v.major, v.minor, v.patch, IncPre(v.pre, identifier))

\* the ASCII order of the alphanumeric identifiers the model uses
StrRank(str) == CASE str = "alpha" -> 1 [] str = "beta" -> 2 [] OTHER -> 3

\* semver's compareIdentifiers: numeric ones compare as numbers and sort
\* before alphanumeric ones, which compare as strings; -1, 0 or 1
CompareIdentifiers(a, b) ==
  IF a.isNum /\ b.isNum
  THEN (IF a.n < b.n THEN -1 ELSE IF a.n > b.n THEN 1 ELSE 0)
  ELSE IF a.isNum THEN -1
  ELSE IF b.isNum THEN 1
  ELSE IF StrRank(a.s) < StrRank(b.s) THEN -1
  ELSE IF StrRank(a.s) > StrRank(b.s) THEN 1
  ELSE 0

\* SemVer.comparePre of two prereleases: identifier by identifier, a
\* prerelease being greater than each of its proper prefixes
RECURSIVE ComparePre(_, _)
ComparePre(a, b) ==
  IF Len(a) = 0 /\ Len(b) = 0 THEN 0
  ELSE IF Len(b) = 0 THEN 1
  ELSE IF Len(a) = 0 THEN -1
  ELSE IF CompareIdentifiers(a[1], b[1]) # 0 THEN CompareIdentifiers(a[1], b[1])
  ELSE ComparePre(Tail(a), Tail(b))

\* semver.compare(a, b) of two valid versions
SemverCompare(a, b) ==
  IF a.major # b.major THEN (IF a.major < b.major THEN -1 ELSE 1)
  ELSE IF a.minor # b.minor THEN (IF a.minor < b.minor THEN -1 ELSE 1)
  ELSE IF a.patch # b.patch THEN (IF a.patch < b.patch THEN -1 ELSE 1)
  ELSE IF Len(a.pre) # 0 /\ Len(b.pre) = 0 THEN -1
  ELSE IF Len(a.pre) = 0 /\ Len(b.pre) # 0 THEN 1
  ELSE ComparePre(a.pre, b.pre)

\* generateNextVersion without the prerelease suffix of the branch name
generateNextVersion_NoPreSuffix(currentVersion, level, preId) ==
  LET version == SemverInc(currentVersion, level, preId)
      minorVer == "v" \o ToString(version.major) \o "." \o ToString(version.minor)
  IN IF ~version.valid
     THEN [ok |-> FALSE, version |-> "", minorVer |-> "", releaseBranchName |-> ""]
     ELSE [ok |-> TRUE, version |-> Format(version), minorVer |-> minorVer,
           releaseBranchName |-> "release-" \o minorVer]

\* generateNextVersion reading the fields of a null version instead of throwing
generateNextVersion_NullTolerant(currentVersion, level, preId) ==
  LET version == SemverInc(currentVersion, level, preId)
      minorVer == "v" \o ToString(version.major) \o "." \o ToString(version.minor)
      base == "release-" \o minorVer
  IN [ok |-> TRUE,
      version |-> Format(version),
      minorVer |-> minorVer,
      releaseBranchName |->
        IF Len(version.pre) # 0 THEN base \o "-" \o IdStr(version.pre[1]) ELSE base]

\* generateNextVersion: ok = FALSE when semver.major(null) throws
generateNextVersion(currentVersion, level, preId) ==
  LET version == SemverInc(currentVersion, level, preId)
      minorVer == "v" \o ToString(version.major) \o "." \o ToString(version.minor)
      base == "release-" \o minorVer
  IN IF ~version.valid
     THEN [ok |-> FALSE, version |-> "", minorVer |-> "", releaseBranchName |-> ""]
     ELSE [ok |-> TRUE,
           version |-> Format(version),
           minorVer |-> minorVer,
           releaseBranchName |->
             IF Len(version.pre) # 0 THEN base \o "-" \o IdStr(version.pre[1]) ELSE base]

(***************************************************************************)
(* Inputs of a run.                                                        *)
(***************************************************************************)
\* yargs: choices of the positional 'level' of cut
CutLevels == {"major", "minor", "premajor", "preminor", "prerelease"}

\* --preid; "" stands for an option that was not given
PreIds == {"", "beta", "alpha"}

\* --upstream, default 'origin'
Upstreams == {"origin", "upstream"}

\* remote URLs, as character sequences: git@h, https:, ssh:
Urls == { <<"g", "i", "t", "@", "h">>,
          <<"h", "t", "t", "p", "s", ":">>,
          <<"s", "s", "h", ":">> }

\* versions a manifest may record; NullVersion is a string semver rejects
Versions == { Ver(2, 4, 0, <<>>), Ver(2, 5, 0, <<>>), Ver(1, 2, 3, <<>>),
              Ver(1, 3, 0, <<Id("beta"), Num(0)>>), Ver(1, 3, 0, <<Id("beta")>>),
              Ver(2, 0, 0, <<Num(0)>>), NullVersion }

\* pkg.version as the program sees it (a string)
VersionString(v) == IF v.valid THEN Format(v) ELSE "not-a-version"

\* String.prototype.startsWith
StartsWith(str, prefix) ==
  Len(str) >= Len(prefix) /\ SubSeq(str, 1, Len(prefix)) = prefix

(***************************************************************************)
(* Repositories.  The shared history is linear: commit c has the parents   *)
(* 1..c-1.  A ref is the set of commits reachable from it.  BumpCommit is   *)
(* the commit 'npm version' creates.                                       *)
(***************************************************************************)
BumpCommit == 100

Reach(tip) == 1..tip

HasTag(repo, name) == \E t \in repo.tags : t.name = name

TagReach(repo, name) == (CHOOSE t \in repo.tags : t.name = name).reach

\* the name of the release branch of version v, as cut names it
ReleaseBranchOf(v) ==
  "release-v" \o ToString(v.major) \o "." \o ToString(v.minor)
    \o (IF Len(v.pre) # 0 THEN "-" \o IdStr(v.pre[1]) ELSE "")

\* the source ref of a refspec exists in the repository: master, the release
\* branch the repository has, or one of its tags
SrcExists(repo, refspec) ==
  \/ repo.exists /\ refspec.src = "refs/heads/master"
  \/ repo.releaseName # "" /\ refspec.src = "refs/heads/" \o repo.releaseName
  \/ \E t \in repo.tags : refspec.src = "refs/tags/" \o t.name

\* npm version that does not tag the commit (--no-git-tag-version)
NpmVersion_NoTag(repo, level) ==
  LET next == SemverInc(repo.version, level, "")
  IN [repo EXCEPT !.version = next,
                  !.master = IF repo.head = "master" THEN @ \cup {BumpCommit} ELSE @,
                  !.release = IF repo.head = "release" THEN @ \cup {BumpCommit} ELSE @]

\* the effect of 'npm version <level> -m "Release v%s"' in a repository:
\* writes the manifest, commits on the checked-out branch and tags the commit
NpmVersion(repo, level) ==
  LET next == SemverInc(repo.version, level, "")
      tip == IF repo.head = "master" THEN repo.master ELSE repo.release
  IN [repo EXCEPT !.version = next,
                  !.master = IF repo.head = "master" THEN @ \cup {BumpCommit} ELSE @,
                  !.release = IF repo.head = "release" THEN @ \cup {BumpCommit} ELSE @,
                  !.tags = @ \cup {[name |-> "v" \o Format(next),
                                    reach |-> tip \cup {BumpCommit}]}]

VARIABLES
  args,          \* the parsed command line: cmd, level, preid, upstream
  url,           \* remote.url() of the upstream remote
  localRepo,     \* the caller's repository (Git.Repository.open('.'))
  remoteRepo,    \* the repository behind the upstream remote
  cloneRepo,     \* the scratch clone of cut
  tmpdir,        \* the scratch directory: "none", "exists", "removed"
  pc,            \* the position of the workflow
  trace,         \* the steps of the workflow that ran, in order
  fault,         \* the step whose collaborator failed, "" if none did
  helperCalls,   \* calls made to the credential helper, with their answers
  credentials,   \* the result of getCreds: "unresolved", "null", "userpass"
  net,           \* network calls (clone, push) attempted, in order
  currentVersion, \* the version read by getVersion
  versionInfo,   \* the result of generateNextVersion
  approval,      \* approval.lgtm: "none" before the prompt, then "yes" or "no"
  reviewed,      \* what approveDiff listed and what the reviewer answered
  promise,       \* the promise returned by the workflow function
  log            \* logger calls, in order

vars == <<args, url, localRepo, remoteRepo, cloneRepo, tmpdir, pc, trace, fault,
          helperCalls, credentials, net, currentVersion, versionInfo, approval,
          reviewed, promise, log>>

env == <<args, url, remoteRepo>>

NoVersionInfo == [ok |-> FALSE, version |-> "", minorVer |-> "", releaseBranchName |-> ""]

NoReview == [range |-> "", commits |-> {}, answer |-> "none", done |-> FALSE]

NoRepo == [exists |-> FALSE, version |-> NullVersion, head |-> "master",
           master |-> {}, release |-> {}, releaseName |-> "", tags |-> {}]

Init ==
  /\ args \in { [cmd |-> "cut", level |-> l, preid |-> p, upstream |-> u] :
                  l \in CutLevels, p \in PreIds, u \in Upstreams }
          \cup { [cmd |-> "tag", level |-> "", preid |-> "", upstream |-> u] :
                  u \in Upstreams }
  /\ url \in Urls
  /\ \E v \in Versions, lm \in 1..MaxCommits, rm \in 1..MaxCommits,
        localHasTag \in BOOLEAN, h \in {"master", "release"} :
       LET tag == [name |-> "v" \o VersionString(v), reach |-> Reach(1)]
       IN /\ args.cmd = "cut" => h = "master"
          /\ localRepo = [exists |-> TRUE, version |-> v, head |-> h,
                          master |-> Reach(lm), release |-> Reach(lm),
                          releaseName |-> ReleaseBranchOf(v),
                          tags |-> IF localHasTag THEN {tag} ELSE {}]
          /\ remoteRepo = [exists |-> TRUE, version |-> v, head |-> "master",
                           master |-> Reach(rm), release |-> {}, releaseName |-> "",
                           tags |-> {tag}]
  /\ cloneRepo = NoRepo
  /\ tmpdir = "none"
  /\ pc = "open"
  /\ trace = <<>>
  /\ fault = ""
  /\ helperCalls = <<>>
  /\ credentials = "unresolved"
  /\ net = <<>>
  /\ currentVersion = NullVersion
  /\ versionInfo = NoVersionInfo
  /\ approval = "none"
  /\ reviewed = NoReview
  /\ promise = [state |-> "pending", value |-> ""]
  /\ log = <<>>

(***************************************************************************)
(* Leaving the workflow function: return and throw settle its promise.     *)
(***************************************************************************)
Return(value) ==
  /\ promise' = [state |-> "fulfilled", value |-> value]
  /\ pc' = "settled"

Throw(err) ==
  /\ promise' = [state |-> "rejected", value |-> err]
  /\ pc' = "settled"

\* Await with the rejection swallowed: the workflow goes on after a failure
Await_Swallowed(step, ok, next, err) ==
  /\ trace' = Append(trace, step)
  /\ fault' = IF ok THEN fault ELSE step
  /\ pc' = next
  /\ UNCHANGED promise

\* a step that has nothing but its collaborator's answer: await it, go on
\* or throw
Await(step, ok, next, err) ==
  /\ trace' = Append(trace, step)
  /\ fault' = IF ok THEN fault ELSE step
  /\ IF ok THEN pc' = next /\ UNCHANGED promise ELSE Throw(err)

\* makeGitOpts with the test of credentials inverted
makeGitOpts_Inverted(creds) ==
  IF creds = "userpass" THEN "sshKeyFromAgent" ELSE "userpassPlaintext"

\* makeGitOpts: the credentials callback the transport will use
makeGitOpts(creds) == IF creds = "userpass" THEN "userpassPlaintext" ELSE "sshKeyFromAgent"

(***************************************************************************)
(* Steps shared by cut and tag.                                            *)
(***************************************************************************)
\* Git.Repository.open('.')
OpenRepo ==
  /\ pc = "open"
  /\ \E ok \in BOOLEAN : Await("open", ok, "getRemote", "could not open repository")
  /\ UNCHANGED <<env, localRepo, cloneRepo, tmpdir, helperCalls, credentials, net,
                 currentVersion, versionInfo, approval, reviewed, log>>

\* repo.getRemote(args.upstream)
GetRemote ==
  /\ pc = "getRemote"
  /\ \E ok \in BOOLEAN : Await("getRemote", ok, "getCreds", "remote not found")
  /\ UNCHANGED <<env, localRepo, cloneRepo, tmpdir, helperCalls, credentials, net,
                 currentVersion, versionInfo, approval, reviewed, log>>

HelperUnavailable == "Using https remote but git credentials helper not available!"

HelperCall(call, result) == [call |-> call, result |-> result]

\* getCreds falling back to the ssh agent when the helper is unavailable
getCredsResult_FallBack(u, avail, fill) ==
  IF avail = "error"
  THEN [calls |-> <<HelperCall("available", avail)>>, creds |-> "unresolved",
        err |-> "credential helper check failed"]
  ELSE IF StartsWith(u, <<"g", "i", "t">>) \/ avail = "no"
  THEN [calls |-> <<HelperCall("available", avail)>>, creds |-> "null", err |-> ""]
  ELSE IF fill = "ok"
  THEN [calls |-> <<HelperCall("available", avail), HelperCall("fill", fill)>>,
        creds |-> "userpass", err |-> ""]
  ELSE [calls |-> <<HelperCall("available", avail), HelperCall("fill", fill)>>,
        creds |-> "unresolved", err |-> "credential fill failed"]

\* getCreds(remote): avail is what GCH.available answers, fill what GCH.fill
\* does.  The result: the helper calls made, the credentials or the error.
getCredsResult(u, avail, fill) ==
  IF avail = "error"
  THEN [calls |-> <<HelperCall("available", avail)>>, creds |-> "unresolved",
        err |-> "credential helper check failed"]
  ELSE IF StartsWith(u, <<"g", "i", "t">>)
  THEN [calls |-> <<HelperCall("available", avail)>>, creds |-> "null", err |-> ""]
  ELSE IF avail = "no"
  THEN [calls |-> <<HelperCall("available", avail)>>, creds |-> "unresolved",
        err |-> HelperUnavailable]
  ELSE IF fill = "ok"
  THEN [calls |-> <<HelperCall("available", avail), HelperCall("fill", fill)>>,
        creds |-> "userpass", err |-> ""]
  ELSE [calls |-> <<HelperCall("available", avail), HelperCall("fill", fill)>>,
        creds |-> "unresolved", err |-> "credential fill failed"]

\* const credentials = await getCreds(remote)
getCreds ==
  /\ pc = "getCreds"
  /\ \E avail \in {"yes", "no", "error"}, fill \in {"ok", "error"} :
       LET r == getCredsResult(url, avail, fill)
       IN /\ helperCalls' = helperCalls \o r.calls
          /\ credentials' = r.creds
          /\ Await("getCreds", r.err = "", IF args.cmd = "cut" THEN "clone" ELSE "plan", r.err)
  /\ UNCHANGED <<env, localRepo, cloneRepo, tmpdir, net,
                 currentVersion, versionInfo, approval, reviewed, log>>

\* approveDiff(repo, currentVersion, nextVersion): the history walk on repo
\* and the prompt.  nextVersion "" stands for a missing third argument.
RangeOf(cur, nextVersion) ==
  "v" \o cur \o ".." \o (IF nextVersion # "" THEN "v" \o nextVersion ELSE "master")

WalkOk(repo, cur, nextVersion) ==
  /\ HasTag(repo, "v" \o cur)
  /\ nextVersion # "" => HasTag(repo, "v" \o nextVersion)

WalkCommits(repo, cur, nextVersion) ==
  (IF nextVersion # "" THEN TagReach(repo, "v" \o nextVersion) ELSE repo.master)
    \ TagReach(repo, "v" \o cur)

\* a confirm prompt whose default is true
Lgtm_DefaultTrue(answer) == IF answer = "no" THEN "no" ELSE "yes"

\* inquirer confirm with default false: only an explicit yes gives lgtm
Lgtm(answer) == IF answer = "yes" THEN "yes" ELSE "no"

Answers == {"yes", "no", "no-input"}

NetCall(op, remote, refspecs, auth, ok, rejected) ==
  [op |-> op, remote |-> remote, refspecs |-> refspecs, auth |-> auth, ok |-> ok,
   rejected |-> {refspecs[i] : i \in rejected},
   accepted |-> IF ok THEN {refspecs[i] : i \in (1..Len(refspecs)) \ rejected} ELSE {}]

LogEntry(via, by, msg) == [via |-> via, by |-> by, msg |-> msg]

\* the refspec src:dst
Refspec(src, dst) == [src |-> src, dst |-> dst]

(***************************************************************************)
(* cutReleaseBranch                                                        *)
(***************************************************************************)
\* tmp.dirSync and Git.Clone(url, tmpdir.name, options)
CutClone ==
  /\ args.cmd = "cut" /\ pc = "clone"
  /\ tmpdir' = "exists"
  /\ \E ok \in BOOLEAN :
       /\ net' = Append(net, NetCall("clone", args.upstream, <<>>,
                                     makeGitOpts(credentials), ok, {}))
       /\ cloneRepo' = IF ok THEN remoteRepo ELSE cloneRepo
       /\ Await("clone", ok, "clonedRemote", "clone failed")
  /\ UNCHANGED <<env, localRepo, helperCalls, credentials,
                 currentVersion, versionInfo, approval, reviewed, log>>

\* clonedRepo.getRemote('origin')
CutClonedRemote ==
  /\ args.cmd = "cut" /\ pc = "clonedRemote"
  /\ \E ok \in BOOLEAN : Await("clonedRemote", ok, "plan", "remote not found")
  /\ UNCHANGED <<env, localRepo, cloneRepo, tmpdir, helperCalls, credentials, net,
                 currentVersion, versionInfo, approval, reviewed, log>>

\* getVersion(tmpdir.name), generateNextVersion and the two progress messages
CutPlan ==
  /\ args.cmd = "cut" /\ pc = "plan"
  /\ \E readOk \in BOOLEAN :
       LET cur == cloneRepo.version
           info == generateNextVersion(cur, args.level, args.preid)
       IN /\ currentVersion' = IF readOk THEN cur ELSE currentVersion
          /\ versionInfo' = IF readOk /\ info.ok THEN info ELSE versionInfo
          /\ log' = IF readOk /\ info.ok
                    THEN log \o << LogEntry("info", "cut", "Incrementing"),
                                   LogEntry("info", "cut", "Cutting branch") >>
                    ELSE log
          /\ Await("plan", readOk /\ info.ok, "approve",
                   IF readOk THEN "Invalid Version: null"
                   ELSE "cannot find module package.json")
  /\ UNCHANGED <<env, localRepo, cloneRepo, tmpdir, helperCalls, credentials, net,
                 approval, reviewed>>

\* approveDiff(repo, currentVersion): the walk runs on repo, the caller's
\* repository
CutApprove ==
  /\ args.cmd = "cut" /\ pc = "approve"
  /\ LET cur == VersionString(currentVersion)
     IN \E walkOk \in BOOLEAN, answer \in Answers :
          LET ok == walkOk /\ WalkOk(localRepo, cur, "")
          IN /\ reviewed' = IF ok
                            THEN [range |-> RangeOf(cur, ""),
                                  commits |-> WalkCommits(localRepo, cur, ""),
                                  answer |-> answer, done |-> TRUE]
                            ELSE reviewed
             /\ approval' = IF ok THEN Lgtm(answer) ELSE approval
             /\ Await("approve", ok, "bump", "history walk failed")
  /\ UNCHANGED <<env, localRepo, cloneRepo, tmpdir, helperCalls, credentials, net,
                 currentVersion, versionInfo, log>>

\* cp.execSync('npm version <level> ...', {cwd: tmpdir.name}), refreshIndex
\* and the test of approval.lgtm
\* the bump run in the working directory of the process
CutBumpEffect_InCwd(local, clone, level, lgtm) ==
  [local |-> NpmVersion(local, level), clone |-> clone]

\* the bump run only after the decision was tested
CutBumpEffect_OnlyIfApproved(local, clone, level, lgtm) ==
  [local |-> local, clone |-> IF lgtm = "yes" THEN NpmVersion(clone, level) ELSE clone]

\* cp.execSync(`npm version ${args.level} ...`, { cwd: tmpdir.name }): what
\* the bump of cut does to the caller's repository and to the clone; lgtm is
\* the decision, which the bump does not look at
CutBumpEffect(local, clone, level, lgtm) ==
  [local |-> local, clone |-> NpmVersion(clone, level)]

CutBump ==
  /\ args.cmd = "cut" /\ pc = "bump"
  /\ trace' = Append(trace, "bump")
  /\ \E ok \in BOOLEAN :
       IF ~ok
       THEN /\ fault' = "bump"
            /\ Throw("Command failed: npm version")
            /\ UNCHANGED <<localRepo, cloneRepo>>
       ELSE /\ localRepo' = CutBumpEffect(localRepo, cloneRepo, args.level, approval).local
            /\ cloneRepo' = CutBumpEffect(localRepo, cloneRepo, args.level, approval).clone
            /\ UNCHANGED fault
            /\ IF approval # "yes"
               THEN Return("Aborted branch cut! Phew, that was a close one...")
               ELSE pc' = "push" /\ UNCHANGED promise
  /\ UNCHANGED <<env, tmpdir, helperCalls, credentials, net,
                 currentVersion, versionInfo, approval, reviewed, log>>

\* a plan that pushes the release branch from a local branch of that name
CutPushPlan_BranchFromSelf(info) ==
  << Refspec("refs/heads/master", "refs/heads/master"),
     Refspec("refs/heads/" \o info.releaseBranchName, "refs/heads/" \o info.releaseBranchName),
     Refspec("refs/tags/v" \o info.version, "refs/tags/v" \o info.version) >>

CutPushPlan(info) ==
  << Refspec("refs/heads/master", "refs/heads/master"),
     Refspec("refs/heads/master", "refs/heads/" \o info.releaseBranchName),
     Refspec("refs/tags/v" \o info.version, "refs/tags/v" \o info.version) >>

\* what the workflow returns once remote.push(...) has resolved; rejected
\* are the refs of the plan the remote did not accept
PushReturn(rejected) == "Done!"

\* clonedRemote.push([...], makeGitOpts(credentials)) and return 'Done!'.
\* The push fails as a whole (the promise rejects) when a source ref does not
\* exist in the repository or the transport fails; when it completes, the
\* remote may still have rejected any of the refs.
CutPush ==
  /\ args.cmd = "cut" /\ pc = "push"
  /\ trace' = Append(trace, "push")
  /\ LET plan == CutPushPlan(versionInfo)
     IN \E ok \in BOOLEAN, rejected \in SUBSET (1..Len(plan)) :
          /\ ok => \A k \in 1..Len(plan) : SrcExists(cloneRepo, plan[k])
          /\ ~ok => rejected = {}
          /\ log' = Append(log, LogEntry("info", "cut", "Pushing branch"))
          /\ net' = Append(net, NetCall("push", "clone.origin", plan,
                                        makeGitOpts(credentials), ok, rejected))
          /\ fault' = IF ok THEN fault ELSE "push"
          /\ IF ok THEN Return(PushReturn(rejected)) ELSE Throw("push failed")
  /\ UNCHANGED <<env, localRepo, cloneRepo, tmpdir, helperCalls, credentials,
                 currentVersion, versionInfo, approval, reviewed>>

(***************************************************************************)
(* tagVersion                                                              *)
(***************************************************************************)
\* getVersion() and generateNextVersion(currentVersion, 'patch')
TagPlan ==
  /\ args.cmd = "tag" /\ pc = "plan"
  /\ \E readOk \in BOOLEAN :
       LET cur == localRepo.version
           info == generateNextVersion(cur, "patch", "")
       IN /\ currentVersion' = IF readOk THEN cur ELSE currentVersion
          /\ versionInfo' = IF readOk /\ info.ok THEN info ELSE versionInfo
          /\ Await("plan", readOk /\ info.ok, "bump",
                   IF readOk THEN "Invalid Version: null"
                   ELSE "cannot find module package.json")
  /\ UNCHANGED <<env, localRepo, cloneRepo, tmpdir, helperCalls, credentials, net,
                 approval, reviewed, log>>

\* cp.execSync('npm version patch ...') in the caller's repository
TagBump ==
  /\ args.cmd = "tag" /\ pc = "bump"
  /\ \E ok \in BOOLEAN :
       /\ localRepo' = IF ok THEN NpmVersion(localRepo, "patch") ELSE localRepo
       /\ Await("bump", ok, "approve", "Command failed: npm version")
  /\ UNCHANGED <<env, cloneRepo, tmpdir, helperCalls, credentials, net,
                 currentVersion, versionInfo, approval, reviewed, log>>

\* approveDiff(repo, currentVersion, versionInfo.version) and the test of
\* approval.lgtm
TagApprove ==
  /\ args.cmd = "tag" /\ pc = "approve"
  /\ trace' = Append(trace, "approve")
  /\ log' = Append(log, LogEntry("info", "tag", "Tagging version"))
  /\ LET cur == VersionString(currentVersion)
         next == versionInfo.version
     IN \E walkOk \in BOOLEAN, answer \in Answers :
          IF ~walkOk \/ ~WalkOk(localRepo, cur, next)
          THEN /\ fault' = "approve"
               /\ Throw("history walk failed")
               /\ UNCHANGED <<approval, reviewed>>
          ELSE /\ reviewed' = [range |-> RangeOf(cur, next),
                               commits |-> WalkCommits(localRepo, cur, next),
                               answer |-> answer, done |-> TRUE]
               /\ approval' = Lgtm(answer)
               /\ UNCHANGED fault
               /\ IF Lgtm(answer) # "yes"
                  THEN Return("Aborted push! Local changes not reverted, you must now do surgery!")
                  ELSE pc' = "push" /\ UNCHANGED promise
  /\ UNCHANGED <<env, localRepo, cloneRepo, tmpdir, helperCalls, credentials, net,
                 currentVersion, versionInfo>>

\* a plan that also pushes the mainline
TagPushPlan_WithMaster(info) ==
  << Refspec("refs/heads/master", "refs/heads/master"),
     Refspec("refs/heads/" \o info.releaseBranchName, "refs/heads/" \o info.releaseBranchName),
     Refspec("refs/tags/v" \o info.version, "refs/tags/v" \o info.version) >>

TagPushPlan(info) ==
  << Refspec("refs/heads/" \o info.releaseBranchName, "refs/heads/" \o info.releaseBranchName),
     Refspec("refs/tags/v" \o info.version, "refs/tags/v" \o info.version) >>

\* remote.push([...], makeGitOpts(credentials)) and return 'Done!'
TagPush ==
  /\ args.cmd = "tag" /\ pc = "push"
  /\ trace' = Append(trace, "push")
  /\ LET plan == TagPushPlan(versionInfo)
     IN \E ok \in BOOLEAN, rejected \in SUBSET (1..Len(plan)) :
          /\ ok => \A k \in 1..Len(plan) : SrcExists(localRepo, plan[k])
          /\ ~ok => rejected = {}
          /\ log' = Append(log, LogEntry("info", "tag", "Pushing tagged version"))
          /\ net' = Append(net, NetCall("push", args.upstream, plan,
                                        makeGitOpts(credentials), ok, rejected))
          /\ fault' = IF ok THEN fault ELSE "push"
          /\ IF ok THEN Return(PushReturn(rejected)) ELSE Throw("push failed")
  /\ UNCHANGED <<env, localRepo, cloneRepo, tmpdir, helperCalls, credentials,
                 currentVersion, versionInfo, approval, reviewed>>

(***************************************************************************)
(* wrap and the end of the process                                         *)
(***************************************************************************)
\* .then(logger.info): no rejection handler
WrapLog_InfoOnly(p) ==
  IF p.state = "fulfilled" THEN <<LogEntry("info", "wrap", p.value)>> ELSE <<>>

\* .then(logger.info, logger.error): what the settled promise p makes wrap log
WrapLog(p) ==
  IF p.state = "fulfilled" THEN <<LogEntry("info", "wrap", p.value)>>
  ELSE <<LogEntry("error", "wrap", p.value)>>

\* fn(args).then(logger.info, logger.error)
wrap ==
  /\ pc = "settled"
  /\ log' = log \o WrapLog(promise)
  /\ pc' = "logged"
  /\ UNCHANGED <<env, localRepo, cloneRepo, tmpdir, trace, fault, helperCalls,
                 credentials, net, currentVersion, versionInfo, approval, reviewed,
                 promise>>

\* The process ends.  The program never calls tmpdir.removeCallback() nor
\* tmp.setGracefulCleanup(); whether the tmp library's exit hook removes the
\* directory depends on the library's version.
ProcessExit ==
  /\ pc = "logged"
  /\ pc' = "exited"
  /\ \E gc \in BOOLEAN :
       tmpdir' = IF gc /\ tmpdir = "exists" THEN "removed" ELSE tmpdir
  /\ UNCHANGED <<env, localRepo, cloneRepo, trace, fault, helperCalls, credentials,
                 net, currentVersion, versionInfo, approval, reviewed, promise, log>>

Next ==
  \/ OpenRepo
  \/ GetRemote
  \/ getCreds
  \/ CutClone
  \/ CutClonedRemote
  \/ CutPlan
  \/ CutApprove
  \/ CutBump
  \/ CutPush
  \/ TagPlan
  \/ TagBump
  \/ TagApprove
  \/ TagPush
  \/ wrap
  \/ ProcessExit

Spec == Init /\ [][Next]_vars

(***************************************************************************)
(* generateNextVersion on its own: one call with arguments from bounded    *)
(* sets, also levels the command line never passes.  The promise stands    *)
(* for the outcome of the call: fulfilled when it returned, rejected when  *)
(* it threw.                                                               *)
(***************************************************************************)
\* levels given to generateNextVersion; "bogus" is no release type
PlanLevels == ReleaseTypes \cup {"bogus"}

PlanVersions == Versions \cup {Ver(1, 3, 0, <<>>)}

PlanInit ==
  /\ args \in { [cmd |-> "plan", level |-> l, preid |-> p, upstream |-> "origin"] :
                  l \in PlanLevels, p \in PreIds }
  /\ currentVersion \in PlanVersions
  /\ url = <<"g", "i", "t", "@", "h">>
  /\ localRepo = NoRepo
  /\ remoteRepo = NoRepo
  /\ cloneRepo = NoRepo
  /\ tmpdir = "none"
  /\ pc = "plan"
  /\ trace = <<>>
  /\ fault = ""
  /\ helperCalls = <<>>
  /\ credentials = "unresolved"
  /\ net = <<>>
  /\ versionInfo = NoVersionInfo
  /\ approval = "none"
  /\ reviewed = NoReview
  /\ promise = [state |-> "pending", value |-> ""]
  /\ log = <<>>

\* generateNextVersion(currentVersion, level, preId)
PlanCall ==
  /\ args.cmd = "plan" /\ pc = "plan"
  /\ LET info == generateNextVersion(currentVersion, args.level, args.preid)
     IN /\ versionInfo' = IF info.ok THEN info ELSE versionInfo
        /\ IF info.ok THEN Return("returned") ELSE Throw("Invalid Version: null")
  /\ UNCHANGED <<env, localRepo, cloneRepo, tmpdir, trace, fault, helperCalls,
                 credentials, net, currentVersion, approval, reviewed, log>>

PlanNext == PlanCall

PlanSpec == PlanInit /\ [][PlanNext]_vars

TypeOK ==
  /\ pc \in {"open", "getRemote", "getCreds", "clone", "clonedRemote", "plan",
             "approve", "bump", "push", "settled", "logged", "exited"}
  /\ tmpdir \in {"none", "exists", "removed"}
  /\ credentials \in {"unresolved", "null", "userpass"}
  /\ approval \in {"none", "yes", "no"}
  /\ promise.state \in {"pending", "fulfilled", "rejected"}

(***************************************************************************)
(* Properties                                                              *)
(***************************************************************************)
\* the push calls among the network calls
Pushes == {i \in 1..Len(net) : net[i].op = "push"}

\* the workflow function has returned or thrown
Terminal == pc \in {"settled", "logged", "exited"}

\* wrap has logged the outcome
Logged == pc \in {"logged", "exited"}

IsOutcome(e) == e.by = "wrap"

\* the outcome messages, i.e. what wrap logged
Outcomes == SelectSeq(log, IsOutcome)

AbortedMsg ==
  IF args.cmd = "cut" THEN "Aborted branch cut! Phew, that was a close one..."
  ELSE "Aborted push! Local changes not reverted, you must now do surgery!"

Ran(step) == \E i \in 1..Len(trace) : trace[i] = step

Rejecting == reviewed.answer \in {"no", "no-input"}

\* C1 as stated: a push is attempted only after an explicit yes; with the
\* answer no or no input the decision is not approved, no push is attempted
\* and the run returns the 'Aborted ...' string.
C1_RejectedAlwaysAborted ==
  /\ Pushes # {} => reviewed.answer = "yes"
  /\ (Rejecting /\ Terminal) =>
       /\ approval = "no"
       /\ Pushes = {}
       /\ promise = [state |-> "fulfilled", value |-> AbortedMsg]

\* C1 amended: a push is attempted only after an explicit yes; with the answer
\* no or no input the decision is not approved and no push is ever attempted;
\* the run returns the 'Aborted ...' string, except in cut when the version
\* bump that runs after the prompt fails: that run ends faulted.
C1_FailClosedGate ==
  /\ Pushes # {} => (reviewed.answer = "yes" /\ approval = "yes")
  /\ Rejecting => (approval = "no" /\ Pushes = {})
  /\ (Rejecting /\ Terminal) =>
       \/ promise = [state |-> "fulfilled", value |-> AbortedMsg]
       \/ /\ args.cmd = "cut" /\ fault = "bump"
          /\ promise = [state |-> "rejected", value |-> "Command failed: npm version"]

C1_Witness ==
  /\ Logged /\ reviewed.answer = "no-input"
  /\ promise.value = AbortedMsg /\ args.cmd = "cut"

\* C2: no clone and no push is attempted unless getCreds completed
\* successfully before; with an https-like URL and the helper reporting
\* unavailable the run fails with the helper-unavailable error and makes no
\* network call.
C2_CredsGateNetwork ==
  /\ net # <<>> => (Ran("getCreds") /\ fault # "getCreds" /\ credentials # "unresolved")
  /\ ( /\ ~StartsWith(url, <<"g", "i", "t">>)
       /\ \E i \in 1..Len(helperCalls) : helperCalls[i] = HelperCall("available", "no") )
     => ( /\ promise = [state |-> "rejected", value |-> HelperUnavailable]
          /\ net = <<>>
          /\ Terminal )

C2_Witness ==
  /\ Logged /\ promise.value = HelperUnavailable
  /\ url = <<"h", "t", "t", "p", "s", ":">> /\ net = <<>>

\* C3: for an ssh-like URL getCreds returns null without calling the
\* credential helper at all, so a helper failure cannot affect the run.
C3_SshSkipsHelper ==
  (StartsWith(url, <<"g", "i", "t">>) /\ Ran("getCreds"))
    => (helperCalls = <<>> /\ credentials = "null" /\ fault # "getCreds")

\* C4: no terminal state of cut leaves the scratch directory in existence.
C4_ScratchRemovedAtExit ==
  (args.cmd = "cut" /\ Terminal) => tmpdir # "exists"

\* C5: the workflow reports 'Done!' only if every ref of the plan was
\* accepted by the remote.
C5_DoneOnlyIfAllAccepted ==
  promise.value = "Done!" => \A i \in Pushes : net[i].rejected = {}

\* C6: in cut the reviewed commits are those reachable from the clone's
\* mainline tip (before the bump) and not from the tag of the current version
\* in the clone.
C6_ReviewedIsCloneRange ==
  (args.cmd = "cut" /\ reviewed.done) =>
    reviewed.commits =
      (cloneRepo.master \ {BumpCommit})
        \ TagReach(cloneRepo, "v" \o VersionString(currentVersion))

\* C7: every run that terminates emits exactly one outcome message, the
\* returned string through logger.info or the error through logger.error, and
\* none before; a reviewer rejection is emitted through logger.info.
C7_OneOutcome ==
  /\ ~Logged => Len(Outcomes) = 0
  /\ Logged =>
       /\ Len(Outcomes) = 1
       /\ Outcomes[1].msg = promise.value
       /\ Outcomes[1].via = (IF promise.state = "fulfilled" THEN "info" ELSE "error")
       /\ promise.state \in {"fulfilled", "rejected"}
       /\ (Rejecting /\ fault = "") => Outcomes[1] = LogEntry("info", "wrap", AbortedMsg)
       /\ fault # "" => Outcomes[1].via = "error"

C7_Witness ==
  /\ pc = "exited" /\ fault = "clone"
  /\ Outcomes = <<LogEntry("error", "wrap", "clone failed")>>

\* the steps that precede the review prompt
PreGateSteps ==
  {"open", "getRemote", "getCreds", "clone", "clonedRemote", "plan", "approve"}
    \cup (IF args.cmd = "tag" THEN {"bump"} ELSE {})

\* C8: when a step that precedes the review prompt fails, no push is ever
\* attempted, no later step runs and the run ends faulted.
C8_PreGateFaultAborts ==
  fault \in PreGateSteps =>
    /\ Pushes = {}
    /\ Terminal
    /\ promise.state = "rejected"
    /\ trace[Len(trace)] = fault
    /\ approval = "none"

C8_Witness ==
  /\ args.cmd = "tag" /\ fault = "bump" /\ Logged
  /\ Outcomes[1].via = "error"

\* C9: an approved cut pushes to the clone's origin, in one request, exactly
\* master->master, master->{releaseBranchName} and the tag v{nextVersion},
\* named as planned from (V, L, preid); from 2.4.0 with level minor these are
\* release-v2.5 and v2.5.0, and the reviewed range is v2.4.0..master.
C9_CutPushPlan ==
  args.cmd = "cut" =>
    /\ Cardinality(Pushes) <= 1
    /\ \A i \in Pushes :
         LET info == generateNextVersion(currentVersion, args.level, args.preid)
         IN /\ net[i].remote = "clone.origin"
            /\ net[i].refspecs =
                 << [src |-> "refs/heads/master", dst |-> "refs/heads/master"],
                    [src |-> "refs/heads/master",
                     dst |-> "refs/heads/" \o info.releaseBranchName],
                    [src |-> "refs/tags/v" \o info.version,
                     dst |-> "refs/tags/v" \o info.version] >>
            /\ (currentVersion = Ver(2, 4, 0, <<>>) /\ args.level = "minor") =>
                 /\ net[i].refspecs[2].dst = "refs/heads/release-v2.5"
                 /\ net[i].refspecs[3].dst = "refs/tags/v2.5.0"
                 /\ reviewed.range = "v2.4.0..master"

C9_Witness ==
  /\ args.cmd = "cut" /\ Pushes # {}
  /\ currentVersion = Ver(2, 4, 0, <<>>) /\ args.level = "minor"

\* C10: an approved tag run pushes to the selected upstream remote exactly
\* two refspecs, the branch release-v{major}.{minor} of the patch-incremented
\* version and the tag of that version, each onto itself, and never a master
\* ref; from 2.5.0 these are release-v2.5 and v2.5.1.
C10_TagPushPlan ==
  args.cmd = "tag" =>
    /\ Cardinality(Pushes) <= 1
    /\ \A i \in Pushes :
         LET next == SemverInc(currentVersion, "patch", "")
             branch == "refs/heads/release-v" \o ToString(next.major)
                         \o "." \o ToString(next.minor)
             tag == "refs/tags/v" \o Format(next)
         IN /\ net[i].remote = args.upstream
            /\ net[i].refspecs = << [src |-> branch, dst |-> branch],
                                    [src |-> tag, dst |-> tag] >>
            /\ \A k \in 1..Len(net[i].refspecs) :
                 /\ net[i].refspecs[k].src # "refs/heads/master"
                 /\ net[i].refspecs[k].dst # "refs/heads/master"
            /\ currentVersion = Ver(2, 5, 0, <<>>) =>
                 net[i].refspecs = << [src |-> "refs/heads/release-v2.5",
                                       dst |-> "refs/heads/release-v2.5"],
                                      [src |-> "refs/tags/v2.5.1",
                                       dst |-> "refs/tags/v2.5.1"] >>

C10_Witness ==
  /\ args.cmd = "tag" /\ Pushes # {}
  /\ currentVersion = Ver(2, 5, 0, <<>>) /\ args.upstream = "upstream"

\* generateNextVersion has been called on its own and has returned or thrown
Planned == args.cmd = "plan" /\ pc = "settled"

\* the release levels the specification of the planner names
SpecLevels == {"major", "minor", "patch", "premajor", "preminor", "prerelease"}

\* C11: for every valid current version, level and preId, the version
\* generateNextVersion returns is strictly greater than the current version
\* in semantic-version order.
C11_NextVersionGreater ==
  (Planned /\ promise.state = "fulfilled" /\ args.level \in SpecLevels) =>
    LET next == SemverInc(currentVersion, args.level, args.preid)
    IN /\ versionInfo.version = Format(next)
       /\ SemverCompare(next, currentVersion) = 1

\* C12: minorVer is 'v{major}.{minor}' of the resulting version and
\* releaseBranchName is 'release-{minorVer}', with '-{first prerelease
\* identifier}' appended exactly when the resulting version carries a
\* prerelease; 1.2.3 with minor gives 1.3.0, v1.3, release-v1.3 and 1.3.0 with
\* prerelease and beta gives a branch ending in -beta.
C12_DerivedNames ==
  (Planned /\ promise.state = "fulfilled") =>
    LET next == SemverInc(currentVersion, args.level, args.preid)
        label == "v" \o ToString(next.major) \o "." \o ToString(next.minor)
    IN /\ versionInfo.version = Format(next)
       /\ versionInfo.minorVer = label
       /\ versionInfo.releaseBranchName =
            (IF Len(next.pre) = 0 THEN "release-" \o label
             ELSE "release-" \o label \o "-" \o IdStr(next.pre[1]))
       /\ (currentVersion = Ver(1, 2, 3, <<>>) /\ args.level = "minor") =>
            versionInfo = [ok |-> TRUE, version |-> "1.3.0", minorVer |-> "v1.3",
                           releaseBranchName |-> "release-v1.3"]
       /\ ( /\ currentVersion = Ver(1, 3, 0, <<>>)
            /\ args.level = "prerelease" /\ args.preid = "beta" ) =>
            /\ versionInfo.version = "1.3.1-beta.0"
            /\ versionInfo.releaseBranchName = "release-v1.3-beta"

C12_Witness ==
  /\ Planned /\ currentVersion = Ver(1, 3, 0, <<>>)
  /\ args.level = "prerelease" /\ args.preid = "beta"
  /\ versionInfo.releaseBranchName = "release-v1.3-beta"

\* C13 as stated: generateNextVersion throws, and returns nothing, whenever
\* the current version is no semantic version or the level is not one of
\* major, minor, patch, premajor, preminor, prerelease.
C13_ThrowsOutsideSpecLevels ==
  (Planned /\ (~currentVersion.valid \/ args.level \notin SpecLevels)) =>
    (promise.state = "rejected" /\ versionInfo = NoVersionInfo)

\* C13 amended: generateNextVersion throws, and returns nothing, whenever the
\* current version is no semantic version or the level is not one of major,
\* minor, patch, premajor, preminor, prepatch, prerelease, pre.
C13_ThrowsOnInvalidInput ==
  ( /\ Planned
    /\ \/ ~currentVersion.valid
       \/ args.level \notin {"major", "minor", "patch", "premajor", "preminor",
                             "prepatch", "prerelease", "pre"} ) =>
    (promise.state = "rejected" /\ versionInfo = NoVersionInfo)

C13_Witness ==
  /\ Planned /\ args.level = "bogus" /\ currentVersion = Ver(2, 4, 0, <<>>)
  /\ promise.state = "rejected"

\* the position of the first run of a step in the trace
Pos(step) == CHOOSE i \in 1..Len(trace) : trace[i] = step

\* C14: cut never changes the caller's repository, on any path; the version
\* bump is applied to the scratch clone.
C14_CutLeavesCallerRepo ==
  [][ args.cmd = "cut" =>
        /\ localRepo' = localRepo
        /\ (pc = "bump" /\ fault' # "bump") =>
             /\ BumpCommit \in cloneRepo'.master
             /\ cloneRepo'.version = SemverInc(cloneRepo.version, args.level, "") ]_vars

C14_Witness ==
  /\ args.cmd = "cut" /\ Logged /\ fault = ""
  /\ BumpCommit \in cloneRepo.master
  /\ BumpCommit \notin localRepo.master \cup localRepo.release

\* C15: in tag the bump is applied in place to the caller's repository before
\* the commit listing and the prompt; after a rejection no push is attempted,
\* nothing is reverted (the bump commit and the new tag are still in the
\* caller's repository) and the outcome says that local changes were not
\* reverted.
C15_TagBumpsBeforeGate ==
  args.cmd = "tag" =>
    /\ Ran("approve") => (Ran("bump") /\ Pos("bump") < Pos("approve"))
    /\ (Ran("bump") /\ fault # "bump") =>
         /\ BumpCommit \in (IF localRepo.head = "master" THEN localRepo.master
                            ELSE localRepo.release)
         /\ HasTag(localRepo, "v" \o versionInfo.version)
         /\ localRepo.version = SemverInc(currentVersion, "patch", "")
    /\ reviewed.done => BumpCommit \in reviewed.commits
    /\ Rejecting =>
         /\ Pushes = {}
         /\ promise = [state |-> "fulfilled",
                       value |-> "Aborted push! Local changes not reverted, you must now do surgery!"]

C15_Witness ==
  /\ args.cmd = "tag" /\ Logged /\ reviewed.answer = "no"
  /\ HasTag(localRepo, "v" \o versionInfo.version)

\* C16: in cut the commit listing and the prompt complete before the bump, so
\* the reviewed commits never contain the bump commit; the bump then runs in
\* the clone whatever the decision, and a bump that fails, also after an
\* approval, ends the run faulted with no push.
C16_CutBumpsAfterGate ==
  args.cmd = "cut" =>
    /\ Ran("bump") => (reviewed.done /\ Pos("approve") < Pos("bump"))
    /\ BumpCommit \notin reviewed.commits
    /\ (Ran("bump") /\ fault # "bump") => BumpCommit \in cloneRepo.master
    /\ ~Ran("bump") => BumpCommit \notin cloneRepo.master
    /\ fault = "bump" => (promise.state = "rejected" /\ Pushes = {})
    /\ Pushes # {} => (Ran("bump") /\ fault # "bump")

C16_Witness ==
  /\ args.cmd = "cut" /\ approval = "yes" /\ fault = "bump" /\ Logged
  /\ Outcomes[1] = LogEntry("error", "wrap", "Command failed: npm version")

\* the credential helper's lookup succeeded
FillSucceeded ==
  \E i \in 1..Len(helperCalls) : helperCalls[i] = HelperCall("fill", "ok")

C18_PlannedTagExists ==
  (args.cmd = "cut" /\ Pushes # {}) =>
    /\ HasTag(cloneRepo, "v" \o versionInfo.version)
    /\ Format(cloneRepo.version) = versionInfo.version

\* C19: the release branch a tag run derives from the version cut produced
\* is the release branch cut derived, for every version, level and preid.
C19_TagKeepsCutBranch ==
  (Planned /\ promise.state = "fulfilled" /\ args.level \in CutLevels) =>
    generateNextVersion(SemverInc(currentVersion, args.level, args.preid),
                        "patch", "").releaseBranchName
      = versionInfo.releaseBranchName

\* C20: after a tag run that reports 'Done!', the commit of the pushed tag
\* is the tip of the pushed release branch.
C20_TagAtReleaseTip ==
  (args.cmd = "tag" /\ promise.value = "Done!") =>
    TagReach(localRepo, "v" \o versionInfo.version) = localRepo.release

====
